---- MODULE Spec2Model ----
(***************************************************************************)
(* Model of the clean-todolist repository: the Todo entity, the in-memory  *)
(* repository, and the application layer (use cases of the onion variant,  *)
(* TodoService of the BYO-DPP variant) that drives them.                   *)
(*                                                                         *)
(* Strings are sequences over a two-character alphabet (a blank and a      *)
(* letter), so that String.prototype.trim() is computed, not assumed.      *)
(* Dates are readings of a non-decreasing integer clock `now`.             *)
(* Todo objects live in a heap and are addressed by reference (1..Len),    *)
(* because the repository's Map stores references, not copies.             *)
(***************************************************************************)
EXTENDS Integers, Sequences, FiniteSets, TLC

\* ------------------------------------------------------------------ bounds
MaxLen == 2
MaxClock == 1
MaxObj == 1
MaxTodos == 3
MaxTasks == 2

MaxRepos == 2

MaxShown == 2

MaxCalls == 2

\* ------------------------------------------------------------- vocabulary
Chars == {" ", "a"}
PENDING == "pending"
COMPLETED == "completed"
TodoStatus == {PENDING, COMPLETED}
\* An id is an opaque string; the k-th one generated is written k.  The ids a
\* caller can ask for are those the program may ever generate.
Ids == 1..MaxObj
NoId == 0
Undefined == <<"undefined">>
NullRef == 0

StrUpTo(n) == UNION {[1..k -> Chars] : k \in 0..n}
Str == StrUpTo(MaxLen)
\* The titles sent in requests: a blank one and a padded one.
ReqTitles == {<<" ">>, <<" ", "a">>}
\* The descriptions sent in requests: a padded one (no code path tests a
\* description for emptiness; the entity's updateDescription is exercised on
\* every string of Str in SpecCore).
ReqDescriptions == {<<" ", "a">>}

\* ------------------------------------------------- String.prototype.trim
RECURSIVE TrimLeft(_)
TrimLeft(s) == IF s = <<>> THEN s
               ELSE IF Head(s) = " " THEN TrimLeft(Tail(s)) ELSE s

RECURSIVE TrimRight(_)
TrimRight(s) == IF s = <<>> THEN s
                ELSE IF s[Len(s)] = " " THEN TrimRight(SubSeq(s, 1, Len(s) - 1))
                ELSE s

trim(s) == TrimRight(TrimLeft(s))

\* ------------------------------------------------------------ Todo entity
\* Faulty variant of the constructor: the status argument is ignored.
Todo_alwaysCompleted(id, title, description, status, createdAt, updatedAt) ==
  [id |-> id, title |-> title, description |-> description,
   status |-> COMPLETED, createdAt |-> createdAt, updatedAt |-> updatedAt]

Todo(id, title, description, status, createdAt, updatedAt) ==
  [id |-> id, title |-> title, description |-> description,
   status |-> status, createdAt |-> createdAt, updatedAt |-> updatedAt]

\* Faulty variants of canBeCompleted: one forgets the title rule, the other
\* the status rule.
canBeCompleted_ignoresTitle(t) == t.status = PENDING

canBeCompleted_ignoresStatus(t) == Len(trim(t.title)) > 0

canBeCompleted(t) == t.status = PENDING /\ Len(trim(t.title)) > 0

canBeUncompleted(t) == t.status = COMPLETED

isCompleted(t) == t.status = COMPLETED

isPending_always(t) == TRUE

isPending(t) == t.status = PENDING

\* Faulty variant of complete: the status is set but updatedAt is left stale.
complete_staleUpdatedAt(t, clk) ==
  IF ~canBeCompleted(t) THEN [ok |-> FALSE, todo |-> t]
  ELSE [ok |-> TRUE, todo |-> [t EXCEPT !.status = COMPLETED]]

\* Each mutator yields [ok, todo]: ok = FALSE is the thrown Error, and the
\* object is then exactly as it was when the method was entered.
complete(t, clk) ==
  IF ~canBeCompleted(t) THEN [ok |-> FALSE, todo |-> t]
  ELSE [ok |-> TRUE, todo |-> [t EXCEPT !.status = COMPLETED, !.updatedAt = clk]]

\* Faulty variant of uncomplete: the lenient one, which never throws.
uncomplete_lenient(t, clk) ==
  [ok |-> TRUE, todo |-> [t EXCEPT !.status = PENDING, !.updatedAt = clk]]

uncomplete(t, clk) ==
  IF ~canBeUncompleted(t) THEN [ok |-> FALSE, todo |-> t]
  ELSE [ok |-> TRUE, todo |-> [t EXCEPT !.status = PENDING, !.updatedAt = clk]]

markAsPending(t, clk) ==
  [ok |-> TRUE, todo |-> [t EXCEPT !.status = PENDING, !.updatedAt = clk]]

\* Faulty variants of updateTitle: storing the input untrimmed; testing the
\* input's length instead of its trimmed length; stamping createdAt too.
updateTitle_noTrim(t, newTitle, clk) ==
  IF Len(trim(newTitle)) = 0 THEN [ok |-> FALSE, todo |-> t]
  ELSE [ok |-> TRUE, todo |-> [t EXCEPT !.title = newTitle, !.updatedAt = clk]]

updateTitle_lengthOnly(t, newTitle, clk) ==
  IF Len(newTitle) = 0 THEN [ok |-> FALSE, todo |-> t]
  ELSE [ok |-> TRUE, todo |-> [t EXCEPT !.title = trim(newTitle), !.updatedAt = clk]]

updateTitle_stampsCreatedAt(t, newTitle, clk) ==
  IF Len(trim(newTitle)) = 0 THEN [ok |-> FALSE, todo |-> t]
  ELSE [ok |-> TRUE, todo |-> [t EXCEPT !.title = trim(newTitle), !.updatedAt = clk,
                                        !.createdAt = clk]]

updateTitle(t, newTitle, clk) ==
  IF Len(trim(newTitle)) = 0 THEN [ok |-> FALSE, todo |-> t]
  ELSE [ok |-> TRUE, todo |-> [t EXCEPT !.title = trim(newTitle), !.updatedAt = clk]]

\* Faulty variants of updateDescription: the input is stored untrimmed; the
\* status is reset along with the description.
updateDescription_noTrim(t, newDescription, clk) ==
  [ok |-> TRUE,
   todo |-> [t EXCEPT !.description = newDescription, !.updatedAt = clk]]

updateDescription_resetsStatus(t, newDescription, clk) ==
  [ok |-> TRUE,
   todo |-> [t EXCEPT !.description = trim(newDescription), !.updatedAt = clk,
                      !.status = PENDING]]

updateDescription(t, newDescription, clk) ==
  [ok |-> TRUE,
   todo |-> [t EXCEPT !.description = trim(newDescription), !.updatedAt = clk]]

\* ------------------------------------------------------------------ state
VARIABLES
  arch,    \* which variant of the application runs: "onion" or "byodpp"
  now,     \* the clock read by new Date()
  heap,    \* sequence of Todo objects; a reference is an index into it
  todos,   \* InMemoryTodoRepository.todos: Map in insertion order, <<[key, ref]>>
  last,    \* the call that has just returned: what it was given and how it ended
  tasks,   \* the asynchronous callers in flight: what each runs and where it stands
  running, \* the caller that holds the thread; 0 when the event loop is idle
  container,   \* DependencyContainer.instance: 0 before the first getInstance(),
               \* then the repository instance its _todoRepository refers to
  factory,     \* whether AppDependencyFactory.instance has been constructed
  initialized, \* AppDependencyProvider.initialized
  registries,  \* each invoker singleton's Map of registered values, <<[key, ref]>>
  repos,       \* the InMemoryTodoRepository instances constructed so far: the
               \* ids each one stores; a repository instance is an index into it
  reply,       \* the wiring call that has just returned
  store,       \* the state of the zustand store useTodoStore
  calls        \* the useTodos hook operations in flight

vars == <<arch, now, heap, todos, last, tasks, running,
          container, factory, initialized, registries, repos, reply, store, calls>>

\* A call made while no asynchronous caller is in flight.
NoTasks == UNCHANGED <<tasks, running>>

\* A call that goes through no container, provider, factory or invoker.
NoWiring == UNCHANGED <<container, factory, initialized, registries, repos, reply>>

\* A call made outside the user interface.
NoUI == UNCHANGED <<store, calls>>

\* A call made directly on an entity, the repository, a use case or the
\* service, with nothing else of the process involved.
Direct == NoTasks /\ NoWiring /\ NoUI

Refs == 1..Len(heap)

\* op: the method; ok: FALSE when it threw (for a predicate, the boolean it
\* returned); ref: the object it was called on, found or created; id: the id
\* it was given; title, description: the argument of an entity method (the
\* contents of a request are bound in the actions' parameters instead);
\* ret: the references it returned; dto: the response DTOs it returned.
Call(op, ok, ref, id, title, description, ret) ==
  [op |-> op, ok |-> ok, ref |-> ref, id |-> id, title |-> title,
   description |-> description, ret |-> ret, dto |-> <<>>]

NoCall == Call("none", TRUE, NullRef, NoId, Undefined, Undefined, <<>>)

\* ----------------------------------------------------- direct entity calls
TodoComplete(o) ==
  LET r == complete(heap[o], now) IN
  /\ heap' = [heap EXCEPT ![o] = r.todo]
  /\ last' = Call("complete", r.ok, o, heap[o].id, Undefined, Undefined, <<>>)
  /\ UNCHANGED <<arch, now, todos>>

TodoUncomplete(o) ==
  LET r == uncomplete(heap[o], now) IN
  /\ arch = "onion"
  /\ heap' = [heap EXCEPT ![o] = r.todo]
  /\ last' = Call("uncomplete", r.ok, o, heap[o].id, Undefined, Undefined, <<>>)
  /\ UNCHANGED <<arch, now, todos>>

TodoUpdateTitle(o, s) ==
  LET r == updateTitle(heap[o], s, now) IN
  /\ heap' = [heap EXCEPT ![o] = r.todo]
  /\ last' = Call("updateTitle", r.ok, o, heap[o].id, s, Undefined, <<>>)
  /\ UNCHANGED <<arch, now, todos>>

TodoUpdateDescription(o, s) ==
  LET r == updateDescription(heap[o], s, now) IN
  /\ heap' = [heap EXCEPT ![o] = r.todo]
  /\ last' = Call("updateDescription", r.ok, o, heap[o].id, Undefined, s, <<>>)
  /\ UNCHANGED <<arch, now, todos>>

\* The four predicates; `ok` carries the boolean they return.
TodoPredicate(o, p) ==
  LET v == CASE p = "canBeCompleted" -> canBeCompleted(heap[o])
             [] p = "canBeUncompleted" -> canBeUncompleted(heap[o])
             [] p = "isCompleted" -> isCompleted(heap[o])
             [] OTHER -> isPending(heap[o]) IN
  /\ last' = Call(p, v, o, heap[o].id, Undefined, Undefined, <<>>)
  /\ UNCHANGED <<arch, now, heap, todos>>

Predicates == {"canBeCompleted", "canBeUncompleted", "isCompleted", "isPending"}

\* The clock advances between calls.
Tick ==
  /\ now < MaxClock
  /\ now' = now + 1
  /\ last' = Call("tick", TRUE, NullRef, NoId, Undefined, Undefined, <<>>)
  /\ UNCHANGED <<arch, heap, todos>>

\* ------------------------------------------------ Map<string, Todo>
MapHas(m, k) == \E i \in 1..Len(m) : m[i].key = k

MapIndex(m, k) == CHOOSE i \in 1..Len(m) : m[i].key = k

MapGet(m, k) == IF MapHas(m, k) THEN m[MapIndex(m, k)].ref ELSE NullRef

\* Faulty variant of set(): a present key keeps its old value.
MapSet_keepsFirst(m, k, v) ==
  IF MapHas(m, k) THEN m ELSE Append(m, [key |-> k, ref |-> v])

\* set() on a present key keeps the entry's position; a new key goes last.
MapSet(m, k, v) ==
  IF MapHas(m, k) THEN [m EXCEPT ![MapIndex(m, k)] = [key |-> k, ref |-> v]]
  ELSE Append(m, [key |-> k, ref |-> v])

MapDelete(m, k) == SelectSeq(m, LAMBDA e : e.key # k)

MapValues(m) == [i \in 1..Len(m) |-> m[i].ref]

\* Faulty variant of the comparator: oldest first.
compare_ascending(h, a, b) == h[a].createdAt - h[b].createdAt

\* The comparator handed to sort(): negative puts a first, positive b first.
compare(h, a, b) == h[b].createdAt - h[a].createdAt

\* Array.prototype.sort is stable: an element moves in front of an earlier
\* one only when the comparator puts the earlier one behind it.
RECURSIVE InsertSorted(_, _, _)
InsertSorted(h, sorted, r) ==
  IF sorted = <<>> THEN <<r>>
  ELSE IF compare(h, Head(sorted), r) > 0
       THEN <<r>> \o sorted
       ELSE <<Head(sorted)>> \o InsertSorted(h, Tail(sorted), r)

RECURSIVE SortByCreatedAtDesc(_, _)
SortByCreatedAtDesc(h, rs) ==
  IF rs = <<>> THEN <<>>
  ELSE InsertSorted(h, SortByCreatedAtDesc(h, SubSeq(rs, 1, Len(rs) - 1)), rs[Len(rs)])

\* ----------------------------------------------- InMemoryTodoRepository
\* Each method as a function of the Map: [ok, todos, ret].
findAll(h, m) == [ok |-> TRUE, todos |-> m, ret |-> SortByCreatedAtDesc(h, MapValues(m))]

\* Faulty variant of findById: an absent id is an error.
findById_throwsWhenAbsent(m, id) ==
  [ok |-> MapHas(m, id), todos |-> m,
   ret |-> IF MapGet(m, id) # NullRef THEN <<MapGet(m, id)>> ELSE <<>>]

findById(m, id) ==
  [ok |-> TRUE, todos |-> m,
   ret |-> IF MapGet(m, id) # NullRef THEN <<MapGet(m, id)>> ELSE <<>>]

\* Faulty variant of create: a stored id is refused.
create_rejectsDuplicate(h, m, o) ==
  IF MapHas(m, h[o].id) THEN [ok |-> FALSE, todos |-> m, ret |-> <<>>]
  ELSE [ok |-> TRUE, todos |-> MapSet(m, h[o].id, o), ret |-> <<o>>]

create(h, m, o) == [ok |-> TRUE, todos |-> MapSet(m, h[o].id, o), ret |-> <<o>>]

\* Faulty variant of update: no existence check.
update_upsert(h, m, o) ==
  [ok |-> TRUE, todos |-> MapSet(m, h[o].id, o), ret |-> <<o>>]

update(h, m, o) ==
  IF ~MapHas(m, h[o].id) THEN [ok |-> FALSE, todos |-> m, ret |-> <<>>]
  ELSE [ok |-> TRUE, todos |-> MapSet(m, h[o].id, o), ret |-> <<o>>]

\* Faulty variant of delete: an absent id is passed over in silence.
delete_silent(m, id) == [ok |-> TRUE, todos |-> MapDelete(m, id), ret |-> <<>>]

delete(m, id) ==
  IF ~MapHas(m, id) THEN [ok |-> FALSE, todos |-> m, ret |-> <<>>]
  ELSE [ok |-> TRUE, todos |-> MapDelete(m, id), ret |-> <<>>]

\* ------------------------------------------------ direct repository calls
RepoFindAll ==
  LET r == findAll(heap, todos) IN
  /\ todos' = r.todos
  /\ last' = Call("repo.findAll", r.ok, NullRef, NoId, Undefined, Undefined, r.ret)
  /\ UNCHANGED <<arch, now, heap>>

RepoFindById(id) ==
  LET r == findById(todos, id) IN
  /\ todos' = r.todos
  /\ last' = Call("repo.findById", r.ok, NullRef, id, Undefined, Undefined, r.ret)
  /\ UNCHANGED <<arch, now, heap>>

RepoCreate(o) ==
  LET r == create(heap, todos, o) IN
  /\ todos' = r.todos
  /\ last' = Call("repo.create", r.ok, o, heap[o].id, Undefined, Undefined, r.ret)
  /\ UNCHANGED <<arch, now, heap>>

RepoUpdate(o) ==
  LET r == update(heap, todos, o) IN
  /\ todos' = r.todos
  /\ last' = Call("repo.update", r.ok, o, heap[o].id, Undefined, Undefined, r.ret)
  /\ UNCHANGED <<arch, now, heap>>

RepoDelete(id) ==
  LET r == delete(todos, id) IN
  /\ todos' = r.todos
  /\ last' = Call("repo.delete", r.ok, NullRef, id, Undefined, Undefined, r.ret)
  /\ UNCHANGED <<arch, now, heap>>

\* ------------------------------------------------ onion variant: use cases
\* generateId() joins the clock reading and a random suffix: an id no
\* earlier Todo bears.
generateId(h) == Len(h) + 1

\* A create that validates the title and then stores the request as sent.
CreateTodoUseCase_execute_noTrim(title, description, d) ==
  /\ arch = "onion"
  /\ IF Len(trim(title)) = 0
     THEN /\ d = 0
          /\ last' = Call("CreateTodoUseCase", FALSE, NullRef, NoId, Undefined, Undefined, <<>>)
          /\ UNCHANGED <<arch, now, heap, todos>>
     ELSE /\ Len(heap) < MaxObj
          /\ now + d <= MaxClock
          /\ LET todo == Todo(generateId(heap), title, description, PENDING, now, now + d)
                 h == Append(heap, todo)
                 o == Len(h)
                 r == create(h, todos, o) IN
             /\ heap' = h
             /\ todos' = r.todos
             /\ now' = now + d
             /\ last' = Call("CreateTodoUseCase", r.ok, o, todo.id, Undefined, Undefined, r.ret)
          /\ UNCHANGED arch

\* The constructor's two new Date() arguments are read one after the other:
\* the clock may advance by d between them.
CreateTodoUseCase_execute(title, description, d) ==
  /\ arch = "onion"
  /\ IF Len(trim(title)) = 0
     THEN /\ d = 0
          /\ last' = Call("CreateTodoUseCase", FALSE, NullRef, NoId, Undefined, Undefined, <<>>)
          /\ UNCHANGED <<arch, now, heap, todos>>
     ELSE /\ Len(heap) < MaxObj
          /\ now + d <= MaxClock
          /\ LET todo == Todo(generateId(heap), trim(title), trim(description),
                              PENDING, now, now + d)
                 h == Append(heap, todo)
                 o == Len(h)
                 r == create(h, todos, o) IN
             /\ heap' = h
             /\ todos' = r.todos
             /\ now' = now + d
             /\ last' = Call("CreateTodoUseCase", r.ok, o, todo.id, Undefined, Undefined, r.ret)
          /\ UNCHANGED arch

GetAllTodosUseCase_execute ==
  LET r == findAll(heap, todos) IN
  /\ arch = "onion"
  /\ todos' = r.todos
  /\ last' = Call("GetAllTodosUseCase", r.ok, NullRef, NoId, Undefined, Undefined, r.ret)
  /\ UNCHANGED <<arch, now, heap>>

\* An update that applies the description before it validates the title.
UpdateTodoUseCase_execute_descriptionFirst(id, title, description) ==
  LET f == findById(todos, id)
      o == IF f.ret = <<>> THEN NullRef ELSE f.ret[1]
      r2 == IF description # Undefined THEN updateDescription(heap[o], description, now)
            ELSE [ok |-> TRUE, todo |-> heap[o]]
      r1 == IF title # Undefined THEN updateTitle(r2.todo, title, now)
            ELSE [ok |-> TRUE, todo |-> r2.todo]
      h == [heap EXCEPT ![o] = r1.todo]
      u == update(h, todos, o) IN
  /\ arch = "onion"
  /\ IF o = NullRef
     THEN /\ last' = Call("UpdateTodoUseCase", FALSE, o, id, Undefined, Undefined, <<>>)
          /\ UNCHANGED <<now, heap, todos>>
     ELSE IF ~r1.ok
     THEN /\ last' = Call("UpdateTodoUseCase", FALSE, o, id, Undefined, Undefined, <<>>)
          /\ heap' = [heap EXCEPT ![o] = r2.todo]
          /\ UNCHANGED <<now, todos>>
     ELSE /\ heap' = h
          /\ todos' = u.todos
          /\ last' = Call("UpdateTodoUseCase", u.ok, o, id, Undefined, Undefined, u.ret)
          /\ UNCHANGED now
  /\ UNCHANGED arch

\* The request's title and description may each be absent (Undefined).
\* The use case runs here without another caller in between its awaits.
UpdateTodoUseCase_execute(id, title, description) ==
  LET f == findById(todos, id)
      o == IF f.ret = <<>> THEN NullRef ELSE f.ret[1]
      r1 == IF title # Undefined THEN updateTitle(heap[o], title, now)
            ELSE [ok |-> TRUE, todo |-> heap[o]]
      r2 == IF description # Undefined THEN updateDescription(r1.todo, description, now)
            ELSE [ok |-> TRUE, todo |-> r1.todo]
      h == [heap EXCEPT ![o] = r2.todo]
      u == update(h, todos, o) IN
  /\ arch = "onion"
  /\ IF o = NullRef \/ ~r1.ok
     THEN /\ last' = Call("UpdateTodoUseCase", FALSE, o, id, Undefined, Undefined, <<>>)
          /\ UNCHANGED <<now, heap, todos>>
     ELSE /\ heap' = h
          /\ todos' = u.todos
          /\ last' = Call("UpdateTodoUseCase", u.ok, o, id, Undefined, Undefined, u.ret)
          /\ UNCHANGED now
  /\ UNCHANGED arch

ToggleTodoStatusUseCase_execute(id) ==
  LET f == findById(todos, id)
      o == IF f.ret = <<>> THEN NullRef ELSE f.ret[1]
      r == IF isPending(heap[o]) THEN complete(heap[o], now) ELSE uncomplete(heap[o], now)
      h == [heap EXCEPT ![o] = r.todo]
      u == update(h, todos, o) IN
  /\ arch = "onion"
  /\ IF o = NullRef \/ ~r.ok
     THEN /\ last' = Call("ToggleTodoStatusUseCase", FALSE, o, id, Undefined, Undefined, <<>>)
          /\ UNCHANGED <<now, heap, todos>>
     ELSE /\ heap' = h
          /\ todos' = u.todos
          /\ last' = Call("ToggleTodoStatusUseCase", u.ok, o, id, Undefined, Undefined, u.ret)
          /\ UNCHANGED now
  /\ UNCHANGED arch

\* --------------------------------------------- BYO-DPP variant: TodoService
\* Date.prototype.toISOString, kept apart from the number it is made from.
toISOString(d) == <<"iso", d>>

toResponseDTO(t) ==
  [id |-> t.id, title |-> t.title, description |-> t.description,
   status |-> t.status, createdAt |-> toISOString(t.createdAt),
   updatedAt |-> toISOString(t.updatedAt)]

toResponseDTOs(h, rs) == [i \in 1..Len(rs) |-> toResponseDTO(h[rs[i]])]

TodoService_getAllTodos ==
  LET r == findAll(heap, todos) IN
  /\ arch = "byodpp"
  /\ todos' = r.todos
  /\ last' = [Call("TodoService.getAllTodos", r.ok, NullRef, NoId, Undefined, Undefined, <<>>)
                EXCEPT !.dto = toResponseDTOs(heap, r.ret)]
  /\ UNCHANGED <<arch, now, heap>>

TodoService_getTodoById(id) ==
  LET r == findById(todos, id) IN
  /\ arch = "byodpp"
  /\ todos' = r.todos
  /\ last' = [Call("TodoService.getTodoById", r.ok, NullRef, id, Undefined, Undefined, <<>>)
                EXCEPT !.dto = toResponseDTOs(heap, r.ret)]
  /\ UNCHANGED <<arch, now, heap>>

TodoService_createTodo(title, description, d) ==
  /\ arch = "byodpp"
  /\ Len(heap) < MaxObj
  /\ now + d <= MaxClock
  /\ LET todo == Todo(generateId(heap), title, description, PENDING, now, now + d)
         h == Append(heap, todo)
         o == Len(h)
         r == create(h, todos, o) IN
     /\ heap' = h
     /\ todos' = r.todos
     /\ now' = now + d
     /\ last' = [Call("TodoService.createTodo", r.ok, o, todo.id, Undefined, Undefined, <<>>)
                   EXCEPT !.dto = toResponseDTOs(h, r.ret)]
  /\ UNCHANGED arch

TodoService_updateTodo(id, title, description) ==
  LET f == findById(todos, id)
      o == IF f.ret = <<>> THEN NullRef ELSE f.ret[1]
      r1 == IF title # Undefined THEN updateTitle(heap[o], title, now)
            ELSE [ok |-> TRUE, todo |-> heap[o]]
      r2 == IF description # Undefined THEN updateDescription(r1.todo, description, now)
            ELSE [ok |-> TRUE, todo |-> r1.todo]
      h == [heap EXCEPT ![o] = r2.todo]
      u == update(h, todos, o) IN
  /\ arch = "byodpp"
  /\ IF o = NullRef \/ ~r1.ok
     THEN /\ last' = Call("TodoService.updateTodo", FALSE, o, id, Undefined, Undefined, <<>>)
          /\ UNCHANGED <<now, heap, todos>>
     ELSE /\ heap' = h
          /\ todos' = u.todos
          /\ last' = [Call("TodoService.updateTodo", u.ok, o, id, Undefined, Undefined, <<>>)
                        EXCEPT !.dto = toResponseDTOs(h, u.ret)]
          /\ UNCHANGED now
  /\ UNCHANGED arch

TodoService_toggleTodoStatus(id) ==
  LET f == findById(todos, id)
      o == IF f.ret = <<>> THEN NullRef ELSE f.ret[1]
      r == IF heap[o].status = COMPLETED THEN markAsPending(heap[o], now)
           ELSE complete(heap[o], now)
      h == [heap EXCEPT ![o] = r.todo]
      u == update(h, todos, o) IN
  /\ arch = "byodpp"
  /\ IF o = NullRef \/ ~r.ok
     THEN /\ last' = Call("TodoService.toggleTodoStatus", FALSE, o, id, Undefined, Undefined, <<>>)
          /\ UNCHANGED <<now, heap, todos>>
     ELSE /\ heap' = h
          /\ todos' = u.todos
          /\ last' = [Call("TodoService.toggleTodoStatus", u.ok, o, id, Undefined, Undefined, <<>>)
                        EXCEPT !.dto = toResponseDTOs(h, u.ret)]
          /\ UNCHANGED now
  /\ UNCHANGED arch

TodoService_deleteTodo(id) ==
  LET r == delete(todos, id) IN
  /\ arch = "byodpp"
  /\ todos' = r.todos
  /\ last' = Call("TodoService.deleteTodo", r.ok, NullRef, id, Undefined, Undefined, r.ret)
  /\ UNCHANGED <<arch, now, heap>>

\* ------------------------------------------------ wiring: the invokers
\* ServiceInvoker, RepositoryInvoker and LogicInvoker have the same code; each
\* is a singleton that is never dropped, so each is named by its class.
Invokers == {"ServiceInvoker", "RepositoryInvoker", "LogicInvoker"}

Names == {"todoService", "todoRepository"}

\* The repository instance r, and the TodoService constructed with it.
RepositoryObject(r) == <<"InMemoryTodoRepository", r>>

ServiceObject(r) == <<"TodoService", r>>

\* Values a caller may register: a number that is falsy and one that is not.
SampleValues == {<<"number", 0>>, <<"number", 1>>}

\* What JavaScript's ! takes for false among the values at hand.
Falsy == {Undefined, <<"number", 0>>}

NoRegistrations == [inv \in Invokers |-> <<>>]

\* Map.prototype.get: undefined for an absent key.
RegistryGet(m, name) == IF MapHas(m, name) THEN m[MapIndex(m, name)].ref ELSE Undefined

register(regs, inv, name, value) == [regs EXCEPT ![inv] = MapSet(@, name, value)]

has(regs, inv, name) == MapHas(regs[inv], name)

\* const service = this.services.get(name); if (!service) throw ...; return service
invoke(regs, inv, name) ==
  LET service == RegistryGet(regs[inv], name) IN
  IF service \in Falsy THEN [ok |-> FALSE, value |-> Undefined]
  ELSE [ok |-> TRUE, value |-> service]

clear(regs, inv) == [regs EXCEPT ![inv] = <<>>]

Reply(op, inv, name, ok, value) ==
  [op |-> op, inv |-> inv, name |-> name, ok |-> ok, value |-> value]

NoReply == Reply("none", "none", "none", TRUE, Undefined)

\* Everything but the wiring stays as it is.
OnlyWiring == UNCHANGED <<arch, now, heap, todos, last>> /\ NoTasks /\ NoUI

Invoker_register(inv, name, value) ==
  /\ registries' = register(registries, inv, name, value)
  /\ reply' = Reply("register", inv, name, TRUE, value)
  /\ UNCHANGED <<container, factory, initialized, repos>>
  /\ OnlyWiring

Invoker_invoke(inv, name) ==
  LET r == invoke(registries, inv, name) IN
  /\ reply' = Reply("invoke", inv, name, r.ok, r.value)
  /\ UNCHANGED <<container, factory, initialized, registries, repos>>
  /\ OnlyWiring

Invoker_has(inv, name) ==
  /\ reply' = Reply("has", inv, name, has(registries, inv, name), Undefined)
  /\ UNCHANGED <<container, factory, initialized, registries, repos>>
  /\ OnlyWiring

Invoker_clear(inv) ==
  /\ registries' = clear(registries, inv)
  /\ reply' = Reply("clear", inv, "none", TRUE, Undefined)
  /\ UNCHANGED <<container, factory, initialized, repos>>
  /\ OnlyWiring

\* ------------------------------------- wiring: onion DependencyContainer
\* The private constructor runs once, inside the first getInstance(): it
\* constructs the one InMemoryTodoRepository the container keeps.
DependencyContainer_getInstance(c, rps) ==
  IF c = NullRef THEN [container |-> Len(rps) + 1, repos |-> Append(rps, {})]
  ELSE [container |-> c, repos |-> rps]

UseCases == {"getAllTodosUseCase", "createTodoUseCase", "updateTodoUseCase",
             "deleteTodoUseCase", "toggleTodoStatusUseCase"}

\* The ids no repository instance stores yet: generateId() yields one of them.
FreshIds == Ids \ UNION {repos[r] : r \in 1..Len(repos)}

ContainerGetInstance ==
  LET g == DependencyContainer_getInstance(container, repos) IN
  /\ arch = "onion"
  /\ container' = g.container
  /\ repos' = g.repos
  /\ reply' = Reply("DependencyContainer.getInstance", "none", "none", TRUE,
                    <<"DependencyContainer", g.container>>)
  /\ UNCHANGED <<factory, initialized, registries>>
  /\ OnlyWiring

\* container.xUseCase(): new XUseCase(this._todoRepository)
ContainerUseCase(uc) ==
  /\ arch = "onion"
  /\ container # NullRef
  /\ reply' = Reply("DependencyContainer.useCase", "none", uc, TRUE, <<uc, container>>)
  /\ UNCHANGED <<container, factory, initialized, registries, repos>>
  /\ OnlyWiring

\* DependencyContainer.getInstance().createTodoUseCase().execute(request) with
\* a valid request: the Todo goes into the container's repository.
ContainerCreateTodo(id) ==
  LET g == DependencyContainer_getInstance(container, repos) IN
  /\ arch = "onion"
  /\ id \in FreshIds
  /\ container' = g.container
  /\ repos' = [g.repos EXCEPT ![g.container] = @ \cup {id}]
  /\ reply' = Reply("createTodoUseCase.execute", "none", "none", TRUE, <<id>>)
  /\ UNCHANGED <<factory, initialized, registries>>
  /\ OnlyWiring

\* DependencyContainer.getInstance().getAllTodosUseCase().execute()
ContainerGetAllTodos ==
  LET g == DependencyContainer_getInstance(container, repos) IN
  /\ arch = "onion"
  /\ container' = g.container
  /\ repos' = g.repos
  /\ reply' = Reply("getAllTodosUseCase.execute", "none", "none", TRUE,
                    g.repos[g.container])
  /\ UNCHANGED <<factory, initialized, registries>>
  /\ OnlyWiring

\* ------------------------- wiring: BYO-DPP AppDependencyProvider, -Factory
\* Faulty variant: initialize() without its guard.
initialize_unguarded(init, regs, rps) ==
  LET r == Len(rps) + 1 IN
  [initialized |-> TRUE,
   registries |-> register(register(regs, "RepositoryInvoker", "todoRepository",
                                    RepositoryObject(r)),
                           "ServiceInvoker", "todoService", ServiceObject(r)),
   repos |-> Append(rps, {})]

\* AppDependencyProvider.initialize(): nothing when already initialized;
\* otherwise a new repository and a new TodoService built on it are registered.
initialize(init, regs, rps) ==
  IF init THEN [initialized |-> init, registries |-> regs, repos |-> rps]
  ELSE LET r == Len(rps) + 1 IN
       [initialized |-> TRUE,
        registries |-> register(register(regs, "RepositoryInvoker", "todoRepository",
                                         RepositoryObject(r)),
                                "ServiceInvoker", "todoService", ServiceObject(r)),
        repos |-> Append(rps, {})]

\* Faulty variant: reset() that leaves the initialized flag set.
reset_keepsFlag(init, regs) ==
  [initialized |-> init,
   registries |-> clear(clear(regs, "RepositoryInvoker"), "ServiceInvoker")]

\* AppDependencyProvider.reset()
reset(init, regs) ==
  [initialized |-> FALSE,
   registries |-> clear(clear(regs, "RepositoryInvoker"), "ServiceInvoker")]

Wire(op, w, value) ==
  /\ initialized' = w.initialized
  /\ registries' = w.registries
  /\ repos' = w.repos
  /\ reply' = Reply(op, "none", "none", TRUE, value)

AppDependencyProvider_initialize ==
  /\ arch = "byodpp"
  /\ Wire("AppDependencyProvider.initialize", initialize(initialized, registries, repos),
          Undefined)
  /\ UNCHANGED <<container, factory>>
  /\ OnlyWiring

\* this.initialize(); return XInvoker.getInstance()
AppDependencyProvider_getInvoker(inv) ==
  /\ arch = "byodpp"
  /\ Wire("AppDependencyProvider.getInvoker", initialize(initialized, registries, repos),
          <<inv>>)
  /\ UNCHANGED <<container, factory>>
  /\ OnlyWiring

AppDependencyProvider_reset ==
  LET w == reset(initialized, registries) IN
  /\ arch = "byodpp"
  /\ Len(repos) < MaxRepos
  /\ initialized' = w.initialized
  /\ registries' = w.registries
  /\ reply' = Reply("AppDependencyProvider.reset", "none", "none", TRUE, Undefined)
  /\ UNCHANGED <<container, factory, repos>>
  /\ OnlyWiring

\* The private constructor, run by the first getInstance(), calls
\* AppDependencyProvider.initialize().
AppDependencyFactory_getInstance ==
  /\ arch = "byodpp"
  /\ factory' = TRUE
  /\ Wire("AppDependencyFactory.getInstance",
          IF factory THEN [initialized |-> initialized, registries |-> registries,
                           repos |-> repos]
          ELSE initialize(initialized, registries, repos),
          <<"AppDependencyFactory">>)
  /\ UNCHANGED container
  /\ OnlyWiring

\* factory.getRepositoryInvoker(), factory.getServiceInvoker(): the provider's.
\* factory.getLogicInvoker(): LogicInvoker.getInstance(), nothing initialized.
AppDependencyFactory_getInvoker(inv) ==
  /\ arch = "byodpp"
  /\ factory
  /\ Wire("AppDependencyFactory.getInvoker",
          IF inv = "LogicInvoker"
          THEN [initialized |-> initialized, registries |-> registries, repos |-> repos]
          ELSE initialize(initialized, registries, repos),
          <<inv>>)
  /\ UNCHANGED <<container, factory>>
  /\ OnlyWiring

\* AppDependencyProvider.reset(); LogicInvoker.getInstance().clear()
AppDependencyFactory_reset ==
  LET w == reset(initialized, registries) IN
  /\ arch = "byodpp"
  /\ Len(repos) < MaxRepos
  /\ initialized' = w.initialized
  /\ registries' = clear(w.registries, "LogicInvoker")
  /\ reply' = Reply("AppDependencyFactory.reset", "none", "none", TRUE, Undefined)
  /\ UNCHANGED <<container, factory, repos>>
  /\ OnlyWiring

\* The useTodos hook's getTodoService(): AppDependencyFactory.getInstance()
\* .getServiceInvoker().invoke('todoService').
getTodoService(init, regs, rps) ==
  LET w == initialize(init, regs, rps) IN
  [initialized |-> w.initialized, registries |-> w.registries, repos |-> w.repos,
   service |-> invoke(w.registries, "ServiceInvoker", "todoService")]

\* getTodoService().createTodo(dto): the Todo goes into the repository the
\* service was constructed with.
ServiceCreateTodo(id) ==
  LET g == getTodoService(initialized, registries, repos) IN
  /\ arch = "byodpp"
  /\ id \in FreshIds
  /\ factory' = TRUE
  /\ initialized' = g.initialized
  /\ registries' = g.registries
  /\ IF g.service.ok
     THEN /\ repos' = [g.repos EXCEPT ![g.service.value[2]] = @ \cup {id}]
          /\ reply' = Reply("TodoService.createTodo", "none", "none", TRUE, <<id>>)
     ELSE /\ repos' = g.repos
          /\ reply' = Reply("TodoService.createTodo", "none", "none", FALSE, Undefined)
  /\ UNCHANGED container
  /\ OnlyWiring

\* getTodoService().getAllTodos()
ServiceGetAllTodos ==
  LET g == getTodoService(initialized, registries, repos) IN
  /\ arch = "byodpp"
  /\ factory' = TRUE
  /\ initialized' = g.initialized
  /\ registries' = g.registries
  /\ repos' = g.repos
  /\ reply' = IF g.service.ok
              THEN Reply("TodoService.getAllTodos", "none", "none", TRUE,
                         g.repos[g.service.value[2]])
              ELSE Reply("TodoService.getAllTodos", "none", "none", FALSE, Undefined)
  /\ UNCHANGED container
  /\ OnlyWiring

\* The process before any wiring call.
Unwired ==
  /\ container = NullRef
  /\ factory = FALSE
  /\ initialized = FALSE
  /\ registries = NoRegistrations
  /\ repos = <<>>
  /\ reply = NoReply

\* ------------------------------------------------ user interface: the store
NoError == <<"null">>

\* create<TodoStore>(...): the store's initial state; no hook operation runs.
Unmounted ==
  /\ store = [todos |-> <<>>, isLoading |-> FALSE, error |-> NoError]
  /\ calls = <<>>

\* The store's actions, each as the state that set(...) leaves.  The list
\* holds references to Todo objects; h is the heap their ids are read from.
setTodos(s, ts) == [s EXCEPT !.todos = ts, !.error = NoError]

addTodo(s, t) == [s EXCEPT !.todos = <<t>> \o s.todos, !.error = NoError]

updateTodo(s, h, t) ==
  [s EXCEPT !.todos = [i \in 1..Len(s.todos) |->
                         IF h[s.todos[i]].id = h[t].id THEN t ELSE s.todos[i]],
            !.error = NoError]

removeTodo(s, h, id) ==
  [s EXCEPT !.todos = SelectSeq(s.todos, LAMBDA r : h[r].id # id), !.error = NoError]

setLoading(s, isLoading) == [s EXCEPT !.isLoading = isLoading]

setError(s, e) == [s EXCEPT !.error = e, !.isLoading = FALSE]

\* ------------------------------------- user interface: the useTodos hook
\* The ids the user interface acts on.
UiIds == 1..MaxShown

\* err.message of what the operation threw.
Message == <<"message">>

\* A hook operation run from its first statement to its last with no other
\* operation in between: setLoading(true); then the store action on success
\* or setError on failure; then, in finally, setLoading(false).
Completed(ok, onSuccess) ==
  store' = setLoading(IF ok THEN onSuccess ELSE setError(setLoading(store, TRUE), Message),
                      FALSE)

\* No asynchronous caller, wiring call or overlapping hook operation.
Sequential == NoTasks /\ NoWiring /\ UNCHANGED calls

useTodos_loadTodos ==
  /\ GetAllTodosUseCase_execute
  /\ Completed(last'.ok, setTodos(setLoading(store, TRUE), last'.ret))
  /\ Sequential

\* createTodo(request): CreateTodoUseCase.execute, then addTodo(todo).
useTodos_createTodo(title, description, d) ==
  /\ arch = "onion"
  /\ IF Len(trim(title)) = 0
     THEN /\ d = 0
          /\ last' = Call("CreateTodoUseCase", FALSE, NullRef, NoId, Undefined, Undefined, <<>>)
          /\ UNCHANGED <<arch, now, heap, todos>>
     ELSE /\ Len(heap) < MaxShown
          /\ now + d <= MaxClock
          /\ LET todo == Todo(generateId(heap), trim(title), trim(description),
                              PENDING, now, now + d)
                 h == Append(heap, todo)
                 o == Len(h)
                 r == create(h, todos, o) IN
             /\ heap' = h
             /\ todos' = r.todos
             /\ now' = now + d
             /\ last' = Call("CreateTodoUseCase", r.ok, o, todo.id, Undefined, Undefined, r.ret)
          /\ UNCHANGED arch
  /\ Completed(last'.ok, addTodo(setLoading(store, TRUE), last'.ref))
  /\ Sequential

useTodos_updateTodo(id, title, description) ==
  /\ UpdateTodoUseCase_execute(id, title, description)
  /\ Completed(last'.ok, updateTodo(setLoading(store, TRUE), heap', last'.ref))
  /\ Sequential

\* deleteTodo(id): DeleteTodoUseCase.execute(id), which only deletes the todo
\* from the repository, then removeTodo(id).
useTodos_deleteTodo(id) ==
  /\ arch = "onion"
  /\ RepoDelete(id)
  /\ Completed(last'.ok, removeTodo(setLoading(store, TRUE), heap', id))
  /\ Sequential

useTodos_toggleTodoStatus(id) ==
  /\ ToggleTodoStatusUseCase_execute(id)
  /\ Completed(last'.ok, updateTodo(setLoading(store, TRUE), heap', last'.ref))
  /\ Sequential

\* --------------------------- user interface: hook operations that overlap
\* Several hook operations are in flight on the one JavaScript thread; each
\* runs from one await to the next without another in between.  An operation
\* starts with setLoading(true) and the use case's statements up to its first
\* await; toggle and update are resumed inside the use case after findById;
\* when the use case has settled, the operation's own continuation runs the
\* store action or setError, and setLoading(false) in finally.
HookCalls == 1..MaxCalls

HookCall(op, id, title) ==
  [op |-> op, id |-> id, title |-> title, pc |-> "start", todo |-> NullRef,
   ok |-> TRUE, ret |-> <<>>]

HookPrograms ==
  {HookCall("loadTodos", NoId, Undefined)}
    \cup {HookCall("createTodo", NoId, ti) : ti \in ReqTitles}
    \cup {HookCall(op, id, Undefined) : op \in {"deleteTodo", "toggleTodoStatus"}, id \in Ids}
    \cup {HookCall("updateTodo", id, ti) : id \in Ids, ti \in ReqTitles}

\* An operation is in flight from its first statement until its finally block
\* has run.
InFlight(c) == calls[c].pc \in {"useCase", "settle"}

OnlyHooks == UNCHANGED <<arch, now, last>> /\ NoTasks /\ NoWiring

\* setLoading(true), then the use case up to its first await.
HookStart(c) ==
  LET call == calls[c]
      all == findAll(heap, todos)
      todo == Todo(generateId(heap), trim(call.title), <<>>, PENDING, now, now)
      h == Append(heap, todo)
      cr == create(h, todos, Len(h))
      de == delete(todos, call.id)
      f == findById(todos, call.id) IN
  /\ call.pc = "start"
  /\ store' = setLoading(store, TRUE)
  /\ CASE call.op = "loadTodos" ->
            /\ calls' = [calls EXCEPT ![c].pc = "settle", ![c].ret = all.ret]
            /\ UNCHANGED <<heap, todos>>
       [] call.op = "createTodo" ->
            IF Len(trim(call.title)) = 0
            THEN /\ calls' = [calls EXCEPT ![c].pc = "settle", ![c].ok = FALSE]
                 /\ UNCHANGED <<heap, todos>>
            ELSE /\ heap' = h
                 /\ todos' = cr.todos
                 /\ calls' = [calls EXCEPT ![c].pc = "settle", ![c].todo = Len(h)]
       [] call.op = "deleteTodo" ->
            /\ todos' = de.todos
            /\ calls' = [calls EXCEPT ![c].pc = "settle", ![c].ok = de.ok]
            /\ UNCHANGED heap
       [] OTHER ->
            /\ calls' = [calls EXCEPT ![c].pc = "useCase",
                                      ![c].todo = IF f.ret = <<>> THEN NullRef ELSE f.ret[1]]
            /\ UNCHANGED <<heap, todos>>
  /\ OnlyHooks

\* The use case after its await of findById: the null test, the entity's
\* method, repository.update.
HookUseCaseResume(c) ==
  LET call == calls[c]
      o == call.todo
      r == IF call.op = "toggleTodoStatus"
           THEN IF isPending(heap[o]) THEN complete(heap[o], now)
                ELSE uncomplete(heap[o], now)
           ELSE updateTitle(heap[o], call.title, now)
      h == [heap EXCEPT ![o] = r.todo]
      u == update(h, todos, o) IN
  /\ call.pc = "useCase"
  /\ IF o = NullRef \/ ~r.ok
     THEN /\ calls' = [calls EXCEPT ![c].pc = "settle", ![c].ok = FALSE]
          /\ UNCHANGED <<heap, todos>>
     ELSE /\ heap' = h
          /\ todos' = u.todos
          /\ calls' = [calls EXCEPT ![c].pc = "settle", ![c].ok = u.ok]
  /\ UNCHANGED store
  /\ OnlyHooks

\* The operation after its await of the use case: the store action, or
\* setError in catch; then setLoading(false) in finally.
HookSettle(c) ==
  LET call == calls[c]
      done == CASE call.op = "loadTodos" -> setTodos(store, call.ret)
                [] call.op = "createTodo" -> addTodo(store, call.todo)
                [] call.op = "deleteTodo" -> removeTodo(store, heap, call.id)
                [] OTHER -> updateTodo(store, heap, call.todo) IN
  /\ call.pc = "settle"
  /\ store' = setLoading(IF call.ok THEN done ELSE setError(store, Message), FALSE)
  /\ calls' = [calls EXCEPT ![c].pc = "ended"]
  /\ UNCHANGED <<heap, todos>>
  /\ OnlyHooks

\* ------------------------------------------- specification of the core
\* One Todo built by the constructor from an arbitrary title and status and
\* an empty or padded description; its two timestamps are clock readings
\* taken no later than the present.
InitCore ==
  /\ arch = "onion"
  /\ now \in 0..MaxClock
  /\ \E ti \in Str, de \in ReqDescriptions \cup {<<>>}, st \in TodoStatus,
        c \in 0..MaxClock, u \in 0..MaxClock :
       /\ c <= now /\ u <= now
       /\ heap = <<Todo(generateId(<<>>), ti, de, st, c, u)>>
  /\ todos = <<>>
  /\ last = NoCall
  /\ tasks = <<>>
  /\ running = 0
  /\ Unwired
  /\ Unmounted

NextCore ==
  \/ \E o \in Refs : TodoComplete(o) /\ Direct
  \/ \E o \in Refs : TodoUncomplete(o) /\ Direct
  \/ \E o \in Refs, s \in Str : TodoUpdateTitle(o, s) /\ Direct
  \/ \E o \in Refs, s \in Str : TodoUpdateDescription(o, s) /\ Direct
  \/ \E o \in Refs, p \in Predicates : TodoPredicate(o, p) /\ Direct
  \/ RepoFindAll /\ Direct
  \/ \E id \in Ids : RepoFindById(id) /\ Direct
  \/ \E o \in Refs : RepoCreate(o) /\ Direct
  \/ \E o \in Refs : RepoUpdate(o) /\ Direct
  \/ \E id \in Ids : RepoDelete(id) /\ Direct
  \/ Tick /\ Direct

SpecCore == InitCore /\ [][NextCore]_vars

\* ------------------------------------ specification of the repository
\* MaxTodos Todo objects built by callers and one empty repository; only the
\* repository's methods are called.  Ids are opaque, so they are named in
\* order of first appearance; two objects may bear the same id, and any two
\* may have the same createdAt.
RepoIds == 1..MaxTodos

InitRepo ==
  /\ arch = "onion"
  /\ now = MaxClock
  /\ heap \in [1..MaxTodos ->
                 {Todo(id, <<"a">>, <<>>, PENDING, c, c) :
                    id \in RepoIds, c \in 0..MaxClock}]
  /\ \A o \in 1..MaxTodos :
       heap[o].id = 1 \/ \E q \in 1..(o - 1) : heap[o].id <= heap[q].id + 1
  /\ todos = <<>>
  /\ last = NoCall
  /\ tasks = <<>>
  /\ running = 0
  /\ Unwired
  /\ Unmounted

NextRepo ==
  \/ RepoFindAll /\ Direct
  \/ \E id \in RepoIds : RepoFindById(id) /\ Direct
  \/ \E o \in Refs : RepoCreate(o) /\ Direct
  \/ \E o \in Refs : RepoUpdate(o) /\ Direct
  \/ \E id \in RepoIds : RepoDelete(id) /\ Direct

SpecRepo == InitRepo /\ [][NextRepo]_vars

\* ------------------------------------- specification of the application
\* The process starts with an empty repository and runs one of the two
\* variants; every Todo is made by that variant's create operation and is
\* reached through the repository by the operations that follow.
Init ==
  /\ arch \in {"onion", "byodpp"}
  /\ now = 0
  /\ heap = <<>>
  /\ todos = <<>>
  /\ last = NoCall
  /\ tasks = <<>>
  /\ running = 0
  /\ Unwired
  /\ Unmounted

OptReqTitles == ReqTitles \cup {Undefined}

OptReqDescriptions == ReqDescriptions \cup {Undefined}

Next ==
  \/ \E ti \in ReqTitles, de \in ReqDescriptions, d \in 0..1 :
       CreateTodoUseCase_execute(ti, de, d) /\ Direct
  \/ \E id \in Ids, ti \in OptReqTitles, de \in OptReqDescriptions :
       UpdateTodoUseCase_execute(id, ti, de) /\ Direct
  \/ GetAllTodosUseCase_execute /\ Direct
  \/ \E id \in Ids : ToggleTodoStatusUseCase_execute(id) /\ Direct
  \/ \E ti \in ReqTitles, de \in ReqDescriptions, d \in 0..1 :
       TodoService_createTodo(ti, de, d) /\ Direct
  \/ \E id \in Ids, ti \in OptReqTitles, de \in OptReqDescriptions :
       TodoService_updateTodo(id, ti, de) /\ Direct
  \/ TodoService_getAllTodos /\ Direct
  \/ \E id \in Ids : TodoService_getTodoById(id) /\ Direct
  \/ \E id \in Ids : TodoService_toggleTodoStatus(id) /\ Direct
  \/ \E id \in Ids : TodoService_deleteTodo(id) /\ Direct
  \/ \E id \in Ids : RepoDelete(id) /\ Direct
  \/ Tick /\ Direct

Spec == Init /\ [][Next]_vars

\* ------------------------------- specification of asynchronous callers
\* Several callers are in flight on the one JavaScript thread.  A caller that
\* holds the thread runs statement after statement until it reaches an await
\* or ends; only then does the event loop hand the thread to another caller.
\* Each runs ToggleTodoStatusUseCase.execute(id), UpdateTodoUseCase.execute
\* with a title, or repository.delete(id).  The bodies of update and delete
\* are taken statement by statement: the has() test, then the write.
Tasks == 1..MaxTasks

\* Where a statement stands that follows an await: the caller is resumed
\* there by the event loop.  Faulty variant: as if update and delete awaited
\* between their test and their write.
AwaitPoints_insideWrite == {"resume", "update.set", "delete.delete"}

AwaitPoints == {"resume"}

Ended == {"done", "failed"}

FirstPc(op) == IF op = "delete" THEN "delete.has" ELSE "findById"

Task(op, id, title) ==
  [op |-> op, id |-> id, title |-> title, pc |-> FirstPc(op), todo |-> NullRef]

Programs ==
  {Task(op, id, Undefined) : op \in {"toggle", "delete"}, id \in Ids}
    \cup {Task("update", id, ti) : id \in Ids, ti \in ReqTitles}

\* Caller t may take its next statement: it holds the thread, or the thread
\* is free and t has not ended.
CanRun(t) ==
  \/ running = t
  \/ running = 0 /\ tasks[t].pc \notin Ended

\* Caller t moves to pc; it keeps the thread unless it awaits or ends there.
Goto(t, pc, todo) ==
  /\ tasks' = [tasks EXCEPT ![t].pc = pc, ![t].todo = todo]
  /\ running' = IF pc \in AwaitPoints \cup Ended THEN 0 ELSE t

\* Faulty variant: findById hands out a copy of the stored entity.
TaskFindById_copies(t) ==
  LET f == findById(todos, tasks[t].id) IN
  /\ CanRun(t)
  /\ tasks[t].pc = "findById"
  /\ IF f.ret = <<>>
     THEN Goto(t, "resume", NullRef) /\ UNCHANGED heap
     ELSE Goto(t, "resume", Len(heap) + 1) /\ heap' = Append(heap, heap[f.ret[1]])
  /\ UNCHANGED <<arch, now, todos, last>>

\* const todo = await this.todoRepository.findById(id)
TaskFindById(t) ==
  LET f == findById(todos, tasks[t].id) IN
  /\ CanRun(t)
  /\ tasks[t].pc = "findById"
  /\ Goto(t, "resume", IF f.ret = <<>> THEN NullRef ELSE f.ret[1])
  /\ UNCHANGED <<arch, now, heap, todos, last>>

\* The statements between the await and the call of update: the null test and
\* the entity's methods.
TaskResume(t) ==
  LET o == tasks[t].todo
      r == IF tasks[t].op = "toggle"
           THEN IF isPending(heap[o]) THEN complete(heap[o], now)
                ELSE uncomplete(heap[o], now)
           ELSE updateTitle(heap[o], tasks[t].title, now) IN
  /\ CanRun(t)
  /\ tasks[t].pc = "resume"
  /\ IF o = NullRef \/ ~r.ok
     THEN Goto(t, "failed", o) /\ UNCHANGED heap
     ELSE Goto(t, "update.has", o) /\ heap' = [heap EXCEPT ![o] = r.todo]
  /\ UNCHANGED <<arch, now, todos, last>>

\* Faulty variant: update writes without testing has().
TaskUpdateHas_noTest(t) ==
  /\ CanRun(t)
  /\ tasks[t].pc = "update.has"
  /\ Goto(t, "update.set", tasks[t].todo)
  /\ UNCHANGED <<arch, now, heap, todos, last>>

\* if (!this.todos.has(todo.id)) throw
TaskUpdateHas(t) ==
  /\ CanRun(t)
  /\ tasks[t].pc = "update.has"
  /\ Goto(t, IF MapHas(todos, heap[tasks[t].todo].id) THEN "update.set" ELSE "failed",
          tasks[t].todo)
  /\ UNCHANGED <<arch, now, heap, todos, last>>

\* this.todos.set(todo.id, todo); return todo
TaskUpdateSet(t) ==
  /\ CanRun(t)
  /\ tasks[t].pc = "update.set"
  /\ todos' = MapSet(todos, heap[tasks[t].todo].id, tasks[t].todo)
  /\ Goto(t, "done", tasks[t].todo)
  /\ UNCHANGED <<arch, now, heap, last>>

\* if (!this.todos.has(id)) throw
TaskDeleteHas(t) ==
  /\ CanRun(t)
  /\ tasks[t].pc = "delete.has"
  /\ Goto(t, IF MapHas(todos, tasks[t].id) THEN "delete.delete" ELSE "failed", NullRef)
  /\ UNCHANGED <<arch, now, heap, todos, last>>

\* this.todos.delete(id)
TaskDeleteDelete(t) ==
  /\ CanRun(t)
  /\ tasks[t].pc = "delete.delete"
  /\ todos' = MapDelete(todos, tasks[t].id)
  /\ Goto(t, "done", NullRef)
  /\ UNCHANGED <<arch, now, heap, last>>

\* The repository holds one todo per id, each made by the application's
\* create; the callers are about to start.
InitAsync ==
  /\ arch = "onion"
  /\ now = MaxClock
  /\ heap \in [Ids -> {Todo(id, <<"a">>, <<>>, st, 0, 0) : id \in Ids, st \in TodoStatus}]
  /\ \A o \in Ids : heap[o].id = o
  /\ todos = [o \in Ids |-> [key |-> o, ref |-> o]]
  /\ last = NoCall
  /\ tasks \in [Tasks -> Programs]
  /\ running = 0
  /\ Unwired
  /\ Unmounted

NextAsync ==
  \/ \E t \in Tasks : TaskFindById(t) /\ NoWiring /\ NoUI
  \/ \E t \in Tasks : TaskResume(t) /\ NoWiring /\ NoUI
  \/ \E t \in Tasks : TaskUpdateHas(t) /\ NoWiring /\ NoUI
  \/ \E t \in Tasks : TaskUpdateSet(t) /\ NoWiring /\ NoUI
  \/ \E t \in Tasks : TaskDeleteHas(t) /\ NoWiring /\ NoUI
  \/ \E t \in Tasks : TaskDeleteDelete(t) /\ NoWiring /\ NoUI

SpecAsync == InitAsync /\ [][NextAsync]_vars

\* ------------------------------------------ specification of the invokers
\* The three invoker singletons, empty, and callers that register, look up
\* and clear.
InitInvoker ==
  /\ arch = "byodpp"
  /\ now = 0
  /\ heap = <<>>
  /\ todos = <<>>
  /\ last = NoCall
  /\ tasks = <<>>
  /\ running = 0
  /\ Unwired
  /\ Unmounted

NextInvoker ==
  \/ \E inv \in Invokers, name \in Names, value \in SampleValues :
       Invoker_register(inv, name, value)
  \/ \E inv \in Invokers, name \in Names : Invoker_invoke(inv, name)
  \/ \E inv \in Invokers, name \in Names : Invoker_has(inv, name)
  \/ \E inv \in Invokers : Invoker_clear(inv)

SpecInvoker == InitInvoker /\ [][NextInvoker]_vars

\* -------------------------------------------- specification of the wiring
\* A process of either variant before its first wiring call; callers obtain
\* the container, the factory and the invokers, reset them, and create and
\* list todos through what they obtained.
InitWiring ==
  /\ arch \in {"onion", "byodpp"}
  /\ now = 0
  /\ heap = <<>>
  /\ todos = <<>>
  /\ last = NoCall
  /\ tasks = <<>>
  /\ running = 0
  /\ Unwired
  /\ Unmounted

NextWiring ==
  \/ ContainerGetInstance
  \/ \E uc \in UseCases : ContainerUseCase(uc)
  \/ \E id \in Ids : ContainerCreateTodo(id)
  \/ ContainerGetAllTodos
  \/ AppDependencyProvider_initialize
  \/ \E inv \in {"ServiceInvoker", "RepositoryInvoker"} : AppDependencyProvider_getInvoker(inv)
  \/ AppDependencyProvider_reset
  \/ AppDependencyFactory_getInstance
  \/ \E inv \in Invokers : AppDependencyFactory_getInvoker(inv)
  \/ AppDependencyFactory_reset
  \/ \E id \in Ids : ServiceCreateTodo(id)
  \/ ServiceGetAllTodos
  \/ \E inv \in Invokers, name \in Names : arch = "byodpp" /\ Invoker_invoke(inv, name)
  \/ \E inv \in Invokers, name \in Names : arch = "byodpp" /\ Invoker_has(inv, name)

SpecWiring == InitWiring /\ [][NextWiring]_vars

\* ------------------------------------ specification of the user interface
\* The onion variant's page, mounted over an empty repository; the user runs
\* one hook operation after the other.
InitUI ==
  /\ arch = "onion"
  /\ now = 0
  /\ heap = <<>>
  /\ todos = <<>>
  /\ last = NoCall
  /\ tasks = <<>>
  /\ running = 0
  /\ Unwired
  /\ Unmounted

NextUI ==
  \/ useTodos_loadTodos
  \/ \E ti \in ReqTitles, de \in ReqDescriptions, d \in 0..1 : useTodos_createTodo(ti, de, d)
  \/ \E id \in UiIds, ti \in OptReqTitles, de \in OptReqDescriptions :
       useTodos_updateTodo(id, ti, de)
  \/ \E id \in UiIds : useTodos_deleteTodo(id)
  \/ \E id \in UiIds : useTodos_toggleTodoStatus(id)

SpecUI == InitUI /\ [][NextUI]_vars

\* ------------------------- specification of overlapping hook operations
\* The page shows the repository's todos, one per id; the user starts
\* operations without waiting for the earlier ones to finish.
InitHooks ==
  /\ arch = "onion"
  /\ now = MaxClock
  /\ heap \in [Ids -> {Todo(id, <<"a">>, <<>>, st, 0, 0) : id \in Ids, st \in TodoStatus}]
  /\ \A o \in Ids : heap[o].id = o
  /\ todos = [o \in Ids |-> [key |-> o, ref |-> o]]
  /\ last = NoCall
  /\ tasks = <<>>
  /\ running = 0
  /\ Unwired
  /\ store = [todos |-> findAll(heap, todos).ret, isLoading |-> FALSE, error |-> NoError]
  /\ calls \in [HookCalls -> HookPrograms]

NextHooks ==
  \/ \E c \in HookCalls : HookStart(c)
  \/ \E c \in HookCalls : HookUseCaseResume(c)
  \/ \E c \in HookCalls : HookSettle(c)

SpecHooks == InitHooks /\ [][NextHooks]_vars

\* ====================================================================
\* Properties
\* ====================================================================
Blank(s) == trim(s) = <<>>

MutatingOps == {"complete", "uncomplete", "updateTitle", "updateDescription"}

\* C1: complete() succeeds exactly when the status is pending and the trimmed
\* title is non-empty; on success the status becomes completed and updatedAt
\* is set to the current time; otherwise it throws and status, title and
\* updatedAt are as before.
C1_CompleteContract ==
  [][last'.op = "complete" =>
       LET pre == heap[last'.ref]
           post == heap'[last'.ref] IN
       /\ last'.ok <=> (pre.status = PENDING /\ ~Blank(pre.title))
       /\ last'.ok => (post.status = COMPLETED /\ post.updatedAt = now)
       /\ ~last'.ok => /\ post.status = pre.status
                       /\ post.title = pre.title
                       /\ post.updatedAt = pre.updatedAt]_vars

C1_Witness ==
  /\ last.op = "complete" /\ last.ok
  /\ heap[last.ref].status = COMPLETED
  /\ heap[last.ref].updatedAt = now
  /\ heap[last.ref].updatedAt > heap[last.ref].createdAt

\* C2: a complete() right after a successful complete() on the same todo
\* throws; a successful complete() takes the todo from pending to completed,
\* and only a successful uncomplete() takes it back, so two successful
\* complete() calls always have a successful uncomplete() between them.
C2_OneCompletePerEdge ==
  [][\A o \in Refs :
       /\ (last'.op = "complete" /\ last'.ref = o /\ last'.ok)
            => (heap[o].status = PENDING /\ heap'[o].status = COMPLETED)
       /\ (last.op = "complete" /\ last.ref = o /\ last.ok
             /\ last'.op = "complete" /\ last'.ref = o)
            => ~last'.ok
       /\ (heap[o].status = COMPLETED /\ heap'[o].status = PENDING)
            => (last'.op = "uncomplete" /\ last'.ref = o /\ last'.ok)]_vars

C2_Witness ==
  /\ last.op = "complete" /\ ~last.ok
  /\ heap[last.ref].status = COMPLETED
  /\ ~Blank(heap[last.ref].title)

\* C3: uncomplete() on a pending todo throws and leaves status and updatedAt
\* as they were; on a completed todo it sets the status to pending and
\* updatedAt to the current time.
C3_UncompleteContract ==
  [][last'.op = "uncomplete" =>
       LET pre == heap[last'.ref]
           post == heap'[last'.ref] IN
       /\ pre.status = PENDING
            => (~last'.ok /\ post.status = PENDING /\ post.updatedAt = pre.updatedAt)
       /\ pre.status = COMPLETED
            => (last'.ok /\ post.status = PENDING /\ post.updatedAt = now)]_vars

C3_Witness ==
  /\ last.op = "uncomplete" /\ ~last.ok
  /\ heap[last.ref].status = PENDING
  /\ heap[last.ref].updatedAt < now

\* C4: for every title that is non-blank after trimming, updateTitle
\* succeeds, the title becomes the trimmed input, and updatedAt is not
\* earlier than it was (timestamps being clock readings, never in the future).
C4_UpdateTitleValid ==
  [][(last'.op = "updateTitle" /\ ~Blank(last'.title)) =>
       LET pre == heap[last'.ref]
           post == heap'[last'.ref] IN
       /\ last'.ok
       /\ post.title = trim(last'.title)
       /\ post.updatedAt >= pre.updatedAt]_vars

C4_Witness ==
  /\ last.op = "updateTitle" /\ last.ok
  /\ last.title # trim(last.title)
  /\ heap[last.ref].title = trim(last.title)

\* C5: for every empty or whitespace-only title, updateTitle throws and no
\* field of the todo (nor anything else) changes.
C5_UpdateTitleBlank ==
  [][(last'.op = "updateTitle" /\ Blank(last'.title)) =>
       /\ ~last'.ok
       /\ heap' = heap
       /\ todos' = todos]_vars

C5_Witness ==
  /\ last.op = "updateTitle" /\ ~last.ok
  /\ last.title # <<>>
  /\ Blank(last.title)

\* C6: updateDescription never throws, whatever the input; afterwards the
\* description is the trimmed input and updatedAt is the current time.
C6_UpdateDescription ==
  [][last'.op = "updateDescription" =>
       LET post == heap'[last'.ref] IN
       /\ last'.ok
       /\ post.description = trim(last'.description)
       /\ post.updatedAt = now]_vars

C6_Witness ==
  /\ last.op = "updateDescription" /\ last.ok
  /\ last.description # <<>>
  /\ Blank(last.description)
  /\ heap[last.ref].description = <<>>

\* C7: after any successful update that applies updateTitle or
\* updateDescription to a todo made by the application's create operations,
\* the title is neither empty nor whitespace-only.
C7_TitleNeverBlankAfterUpdate ==
  [][\A id \in Ids, ti \in OptReqTitles, de \in OptReqDescriptions :
       (/\ UpdateTodoUseCase_execute(id, ti, de) \/ TodoService_updateTodo(id, ti, de)
        /\ ti # Undefined \/ de # Undefined
        /\ last'.ok)
         => ~Blank(heap'[last'.ref].title)]_vars

\* C8: every todo held in the repository has a description equal to its own
\* trimmed value.
C8_StoredDescriptionTrimmed ==
  \A i \in 1..Len(todos) :
    heap[todos[i].ref].description = trim(heap[todos[i].ref].description)

\* C9 as stated: updatedAt >= createdAt is kept, and updatedAt changes in a
\* step if and only if the step is a successful mutating entity operation on
\* that todo.
C9_UpdatedAtChangesIffMutation ==
  [][\A o \in Refs :
       /\ heap[o].updatedAt >= heap[o].createdAt
            => heap'[o].updatedAt >= heap'[o].createdAt
       /\ (heap'[o].updatedAt # heap[o].updatedAt)
            <=> (last'.op \in MutatingOps /\ last'.ref = o /\ last'.ok)]_vars

\* C9 amended: updatedAt >= createdAt is kept; updatedAt changes only in a
\* successful mutating entity operation on that todo; and such an operation
\* sets updatedAt to the current clock reading, which is not earlier than the
\* previous value and equals it when the clock has not advanced since.
C9_UpdatedAtOnlyByMutation ==
  [][\A o \in Refs :
       /\ heap[o].updatedAt >= heap[o].createdAt
            => heap'[o].updatedAt >= heap'[o].createdAt
       /\ (heap'[o].updatedAt # heap[o].updatedAt)
            => (last'.op \in MutatingOps /\ last'.ref = o /\ last'.ok)
       /\ (last'.op \in MutatingOps /\ last'.ref = o /\ last'.ok)
            => (heap'[o].updatedAt = now /\ heap'[o].updatedAt >= heap[o].updatedAt)]_vars

C9_Witness ==
  /\ last.op \in MutatingOps /\ last.ok
  /\ heap[last.ref].updatedAt = now
  /\ heap[last.ref].createdAt < now
  /\ MapHas(todos, heap[last.ref].id)

\* C10: no operation changes the id or the createdAt of an existing todo, and
\* no todo ceases to exist.
C10_IdAndCreatedAtImmutable ==
  [][/\ Len(heap') >= Len(heap)
     /\ \A o \in Refs :
          /\ heap'[o].id = heap[o].id
          /\ heap'[o].createdAt = heap[o].createdAt]_vars

C10_Witness ==
  /\ last.op \in {"UpdateTodoUseCase", "TodoService.updateTodo",
                  "ToggleTodoStatusUseCase", "TodoService.toggleTodoStatus"}
  /\ last.ok
  /\ heap[last.ref].updatedAt > heap[last.ref].createdAt
  /\ heap[last.ref].id = last.id

\* C11: a todo's status changes only in a successful complete() (pending to
\* completed) or a successful uncomplete() (completed to pending) on that
\* todo; and neither status is terminal: a completed todo can be uncompleted,
\* and a pending one can be completed, after a title update if its title is
\* blank.
C11_StatusTransitions ==
  [][\A o \in Refs :
       /\ (heap'[o].status # heap[o].status)
            => /\ last'.ref = o /\ last'.ok
               /\ \/ /\ last'.op = "complete"
                     /\ heap[o].status = PENDING /\ heap'[o].status = COMPLETED
                  \/ /\ last'.op = "uncomplete"
                     /\ heap[o].status = COMPLETED /\ heap'[o].status = PENDING
       /\ heap[o].status = COMPLETED => uncomplete(heap[o], now).ok
       /\ heap[o].status = PENDING
            => complete(IF Blank(heap[o].title)
                        THEN updateTitle(heap[o], <<"a">>, now).todo
                        ELSE heap[o], now).ok]_vars

C11_Witness ==
  /\ last.op = "uncomplete" /\ last.ok
  /\ heap[last.ref].status = PENDING
  /\ Blank(heap[last.ref].title)
  /\ MapHas(todos, heap[last.ref].id)

\* C12: every todo created through CreateTodoUseCase.execute or
\* TodoService.createTodo is a new object with status pending, and it is the
\* object the repository holds under its id afterwards, whatever the request
\* contained.
C12_CreatedPending ==
  [][(last'.op \in {"CreateTodoUseCase", "TodoService.createTodo"} /\ last'.ok) =>
       /\ Len(heap') = Len(heap) + 1
       /\ last'.ref = Len(heap')
       /\ heap'[last'.ref].status = PENDING
       /\ MapGet(todos', heap'[last'.ref].id) = last'.ref]_vars

C12_Witness ==
  /\ last.op = "TodoService.createTodo" /\ last.ok
  /\ Blank(heap[last.ref].title)
  /\ heap[last.ref].status = PENDING
  /\ MapGet(todos, heap[last.ref].id) = last.ref

\* Entries of m stored under another id than k are the same, at the same
\* place, in n.
OthersKept(m, n, k) ==
  \A i \in 1..Len(m) : m[i].key # k => (i <= Len(n) /\ n[i] = m[i])

\* C13: repo.create(t) returns t itself, and a repo.findById(t.id) that
\* follows it returns that same object, equal to t in all six fields,
\* whatever the store held before.
C13_CreateFindRoundTrip ==
  [][/\ last'.op = "repo.create"
          => (last'.ok /\ last'.ret = <<last'.ref>>)
     /\ (/\ last.op = "repo.create"
         /\ last'.op = "repo.findById"
         /\ last'.id = heap[last.ref].id)
          => /\ last'.ok
             /\ last'.ret = <<last.ref>>
             /\ heap'[last'.ret[1]] = heap[last.ref]]_vars

C13_Witness ==
  /\ last.op = "repo.findById" /\ last.ret # <<>>
  /\ Len(todos) >= 2
  /\ \E o \in Refs : /\ o # last.ret[1]
                      /\ heap[o].id = last.id
                      /\ heap[o] # heap[last.ret[1]]

\* C14: repo.update(t) throws and leaves the store as it was when t.id is not
\* stored; otherwise it puts t in place of the entity stored under t.id,
\* leaves every other entry as it was, and returns t.
C14_UpdateContract ==
  [][last'.op = "repo.update" =>
       LET o == last'.ref
           id == heap[o].id IN
       IF ~MapHas(todos, id)
       THEN ~last'.ok /\ todos' = todos
       ELSE /\ last'.ok
            /\ last'.ret = <<o>>
            /\ MapGet(todos', id) = o
            /\ Len(todos') = Len(todos)
            /\ OthersKept(todos, todos', id)]_vars

C14_Witness ==
  /\ last.op = "repo.update" /\ last.ok
  /\ Len(todos) >= 2
  /\ MapGet(todos, heap[last.ref].id) = last.ref

\* C15: repo.delete(id) throws and leaves the store as it was when id is not
\* stored; otherwise it removes the entry of id and no other.
C15_DeleteContract ==
  [][last'.op = "repo.delete" =>
       LET id == last'.id IN
       IF ~MapHas(todos, id)
       THEN ~last'.ok /\ todos' = todos
       ELSE /\ last'.ok
            /\ MapGet(todos', id) = NullRef
            /\ Len(todos') = Len(todos) - 1
            /\ \A i \in 1..Len(todos) :
                 todos[i].key # id => \E j \in 1..Len(todos') : todos'[j] = todos[i]]_vars

C15_Witness ==
  /\ last.op = "repo.delete" /\ last.ok
  /\ todos # <<>>
  /\ ~MapHas(todos, last.id)

\* C16: repo.findAll() returns every stored todo exactly once, a todo with a
\* later createdAt before one with an earlier createdAt, and leaves the store
\* as it was.
C16_FindAllSorted ==
  [][last'.op = "repo.findAll" =>
       LET ret == last'.ret IN
       /\ last'.ok
       /\ todos' = todos
       /\ Len(ret) = Len(todos)
       /\ \A i \in 1..Len(todos) :
            Cardinality({j \in 1..Len(ret) : ret[j] = todos[i].ref}) = 1
       /\ \A i \in 1..Len(ret), j \in 1..Len(ret) :
            heap[ret[i]].createdAt > heap[ret[j]].createdAt => i < j]_vars

C16_Witness ==
  /\ last.op = "repo.findAll"
  /\ Len(last.ret) >= 2
  /\ last.ret # MapValues(todos)
  /\ heap[last.ret[1]].createdAt > heap[last.ret[Len(last.ret)]].createdAt

\* C17: repo.findById(id) never throws; it returns the entity stored under
\* id, or null when none is, and leaves the store as it was.
C17_FindByIdTotal ==
  [][last'.op = "repo.findById" =>
       /\ last'.ok
       /\ todos' = todos
       /\ \A i \in 1..Len(todos) :
            todos[i].key = last'.id => last'.ret = <<todos[i].ref>>
       /\ (\A i \in 1..Len(todos) : todos[i].key # last'.id) => last'.ret = <<>>]_vars

C17_Witness ==
  /\ last.op = "repo.findById" /\ last.ok
  /\ last.ret = <<>>
  /\ todos # <<>>

\* C18: repo.create(t) never throws; a stored id has its entity replaced by t
\* and the store keeps its size, a new id adds one entry; entries of other ids
\* stay as they were.
C18_CreateUpserts ==
  [][last'.op = "repo.create" =>
       LET o == last'.ref
           id == heap[o].id IN
       /\ last'.ok
       /\ MapGet(todos', id) = o
       /\ Len(todos') = IF MapHas(todos, id) THEN Len(todos) ELSE Len(todos) + 1
       /\ OthersKept(todos, todos', id)]_vars

\* A create whose entry is not the last one: its id was stored before.
C18_Witness ==
  /\ last.op = "repo.create" /\ last.ok
  /\ Len(todos) >= 2
  /\ todos[1].ref = last.ref
  /\ \E o \in Refs : o # last.ref /\ heap[o].id = heap[last.ref].id

\* What findById(id) would return: the fields of the entity stored under id.
Stored(h, m, id) == IF MapHas(m, id) THEN <<h[MapGet(m, id)]>> ELSE <<>>

\* C19: the entity that findById(id) returns changes only in a repo.create,
\* repo.update or repo.delete step; a mutator called on a Todo that was passed
\* to create or obtained from findById does not alter it.
C19_RepositoryOwnsCopy ==
  [][\A id \in Ids :
       Stored(heap', todos', id) # Stored(heap, todos, id)
         => last'.op \in {"repo.create", "repo.update", "repo.delete"}]_vars

\* The id under which caller t's pending write acts.
WriteKey(t) ==
  IF tasks[t].op = "delete" THEN tasks[t].id ELSE heap[tasks[t].todo].id

\* C20: under every interleaving of callers at their await points, a caller
\* that has passed the has() test of update or delete holds the thread, the
\* test still holds, and the very next step is its own write: no other
\* caller's step comes between the test and the write.
C20_CheckThenActAtomic ==
  [][\A t \in Tasks :
       tasks[t].pc \in {"update.set", "delete.delete"} =>
         /\ running = t
         /\ MapHas(todos, WriteKey(t))
         /\ tasks'[t].pc = "done"
         /\ \A u \in Tasks \ {t} : tasks'[u] = tasks[u]]_vars

\* A caller stands between update's test and its write while a delete of the
\* same id and another caller suspended at its await are waiting.
C20_Witness ==
  \E t \in Tasks, u \in Tasks :
    /\ tasks[t].pc = "update.set"
    /\ tasks[u].op = "delete" /\ tasks[u].pc = "delete.has"
    /\ tasks[u].id = WriteKey(t)

\* C22: CreateTodoUseCase.execute with an empty or whitespace-only title
\* throws and leaves the repository and every Todo as they were; with any
\* other title it stores, under a fresh id, a Todo whose title and
\* description are the request's values trimmed.
C22_CreateValidatesAndTrims ==
  [][\A ti \in ReqTitles, de \in ReqDescriptions, d \in 0..1 :
       CreateTodoUseCase_execute(ti, de, d) =>
         IF Blank(ti)
         THEN ~last'.ok /\ todos' = todos /\ heap' = heap
         ELSE /\ last'.ok
              /\ ~MapHas(todos, last'.id)
              /\ MapGet(todos', last'.id) = last'.ref
              /\ heap'[last'.ref].title = trim(ti)
              /\ heap'[last'.ref].description = trim(de)]_vars

\* A padded request was stored: the stored title and description are the
\* request's without the padding.
C22_Witness ==
  /\ last.op = "CreateTodoUseCase"
  /\ last.ok
  /\ MapGet(todos, last.id) = last.ref
  /\ heap[last.ref].title = <<"a">>
  /\ heap[last.ref].description = <<"a">>

UpdateOps == {"UpdateTodoUseCase", "TodoService.updateTodo"}

\* C23: an update request that fails, through UpdateTodoUseCase.execute or
\* TodoService.updateTodo, leaves every stored Todo's fields and the
\* repository as they were: the description is never applied without the
\* title.
C23_UpdateAllOrNothing ==
  [][(last'.op \in UpdateOps /\ ~last'.ok) => heap' = heap /\ todos' = todos]_vars

\* An update of a stored Todo failed on its title.
C23_Witness ==
  /\ last.op \in UpdateOps
  /\ ~last.ok
  /\ last.ref # NullRef
  /\ MapGet(todos, last.id) = last.ref

ToggleOps == {"ToggleTodoStatusUseCase", "TodoService.toggleTodoStatus"}

\* TodoStatus has two values; Flip exchanges them.
Flip(st) == IF st = PENDING THEN COMPLETED ELSE PENDING

\* C24: a toggle of an absent id throws and changes nothing; a toggle of a
\* stored Todo with a non-blank title succeeds and leaves the same Todo
\* stored with its status flipped, so a second toggle right after the first
\* restores the status the first one found.
C24_ToggleInvolution ==
  [][last'.op \in ToggleOps =>
       IF ~MapHas(todos, last'.id)
       THEN ~last'.ok /\ heap' = heap /\ todos' = todos
       ELSE LET o == MapGet(todos, last'.id) IN
            ~Blank(heap[o].title) =>
              /\ last'.ok
              /\ MapGet(todos', last'.id) = o
              /\ heap'[o].status = Flip(heap[o].status)
              /\ Flip(heap'[o].status) = heap[o].status]_vars

\* A stored Todo, created pending, is pending again after a toggle: it was
\* toggled twice.
C24_Witness ==
  /\ last.op \in ToggleOps
  /\ last.ok
  /\ MapGet(todos, last.id) = last.ref
  /\ heap[last.ref].status = PENDING
  /\ ~Blank(heap[last.ref].title)

\* The callers that toggle the Todo stored under id.
TogglesOf(id) == {t \in Tasks : tasks[t].op = "toggle" /\ tasks[t].id = id}

\* Exactly two callers act on id, and both toggle it.
TwoToggles(id) ==
  /\ Cardinality(TogglesOf(id)) = 2
  /\ \A t \in Tasks : tasks[t].id = id => t \in TogglesOf(id)

\* C25: when exactly two toggles act on the same stored Todo (non-blank
\* title) and interleave at their awaits in any order, both succeed, and once
\* both have ended the stored status is the status the Todo had at the start.
C25_InterleavedTogglesKeepStatus ==
  \A id \in Ids, st \in TodoStatus :
    (TwoToggles(id) /\ heap[MapGet(todos, id)].status = st)
      => [](/\ \A t \in TogglesOf(id) : tasks[t].pc # "failed"
            /\ (\A t \in TogglesOf(id) : tasks[t].pc \in Ended)
                 => /\ MapHas(todos, id)
                    /\ heap[MapGet(todos, id)].status = st)

\* Two toggles of the same Todo interleave: one has flipped the entity and is
\* about to store it while the other, which read the same entity before,
\* waits at its await.
C25_Witness ==
  \E id \in Ids, t \in Tasks, u \in Tasks :
    /\ TwoToggles(id)
    /\ TogglesOf(id) = {t, u}
    /\ tasks[t].pc = "update.has"
    /\ tasks[u].pc = "resume"
    /\ tasks[u].todo = tasks[t].todo
    /\ tasks[t].todo # NullRef

\* Caller t, a toggle or an update, read its Todo before a delete of the same
\* id took effect and has not yet reached the repository's write.
InFlightAfterDelete(t) ==
  /\ tasks[t].op \in {"toggle", "update"}
  /\ tasks[t].todo # NullRef
  /\ tasks[t].pc \in {"resume", "update.has"}
  /\ ~MapHas(todos, heap[tasks[t].todo].id)

\* No step puts back an id that the repository does not hold.
AbsentStaysAbsent == \A id \in Ids : ~MapHas(todos, id) => ~MapHas(todos', id)

\* C26 as stated: after the delete, the in-flight toggle or update goes on to
\* repository.update and fails there with not-found, and the id stays absent.
C26_FailsWithNotFound ==
  [][/\ AbsentStaysAbsent
     /\ \A t \in Tasks :
          (InFlightAfterDelete(t) /\ tasks'[t] # tasks[t]) =>
            tasks'[t].pc = IF tasks[t].pc = "resume" THEN "update.has" ELSE "failed"]_vars

\* C26, amended: after the delete, the in-flight toggle or update fails,
\* either in the entity's own validation (a blank new title) or with
\* not-found at repository.update; it never writes, and the id stays absent.
C26_DeletedNeverReinserted ==
  [][/\ AbsentStaysAbsent
     /\ \A t \in Tasks :
          (InFlightAfterDelete(t) /\ tasks'[t] # tasks[t]) =>
            tasks'[t].pc \in IF tasks[t].pc = "resume" THEN {"update.has", "failed"}
                             ELSE {"failed"}]_vars

\* A delete took effect after a toggle or update had read the Todo; that
\* caller went on to repository.update and failed there, and the id is absent.
C26_Witness ==
  \E t \in Tasks, u \in Tasks :
    /\ tasks[u].op = "delete" /\ tasks[u].pc = "done"
    /\ tasks[t].op \in {"toggle", "update"}
    /\ tasks[t].id = tasks[u].id
    /\ tasks[t].todo # NullRef
    /\ tasks[t].pc = "failed"
    /\ tasks[t].op = "update" => ~Blank(tasks[t].title)
    /\ ~MapHas(todos, tasks[t].id)

\* C27: for each invoker, after any registrations and clears, invoke(name)
\* succeeds exactly when has(name) is true, and then returns the value most
\* recently registered under name (what the Map holds there); otherwise it
\* throws.
C27_InvokeIffHas ==
  \A inv \in Invokers, name \in Names :
    LET r == invoke(registries, inv, name) IN
    /\ r.ok <=> has(registries, inv, name)
    /\ r.ok => r.value = RegistryGet(registries[inv], name)

ResetOps == {"AppDependencyProvider.reset", "AppDependencyFactory.reset"}

\* The repository instance the registered TodoService was constructed with.
ServiceRepository(regs) == RegistryGet(regs["ServiceInvoker"], "todoService")[2]

\* C21: in a step that is not a reset, a container that exists stays the same
\* container with the same repository, and every use case it makes receives
\* that repository; an initialized provider stays initialized with the same
\* registrations; once a repository is wired no further instance is
\* constructed; every repository keeps the todos it holds, and what a listing
\* returns is the content of the one wired repository.
C21_OneRepository ==
  [][reply'.op \notin ResetOps =>
       /\ container # NullRef => container' = container
       /\ initialized => initialized' /\ registries' = registries
       /\ (container # NullRef \/ initialized) => Len(repos') = Len(repos)
       /\ \A r \in 1..Len(repos) : repos[r] \subseteq repos'[r]
       /\ reply'.op = "DependencyContainer.useCase" => reply'.value[2] = container
       /\ reply'.op = "getAllTodosUseCase.execute" => reply'.value = repos'[container']
       /\ reply'.op = "TodoService.getAllTodos" =>
            reply'.ok /\ reply'.value = repos'[ServiceRepository(registries')]]_vars

\* A listing returns a todo created earlier, and one repository instance has
\* been constructed.
C21_Witness ==
  /\ reply.op \in {"getAllTodosUseCase.execute", "TodoService.getAllTodos"}
  /\ reply.ok
  /\ reply.value # {}
  /\ Len(repos) = 1

GetInvokerOps == {"AppDependencyProvider.getInvoker", "AppDependencyFactory.getInvoker"}

\* C28: a reset leaves the provider uninitialized and 'todoService'
\* unregistered; the next getServiceInvoker() or getRepositoryInvoker() of an
\* uninitialized provider constructs one new, empty repository, after which
\* invoke('todoService') succeeds with a service built on that repository and
\* invoke('todoRepository') returns that same repository.
C28_ResetThenReinitialize ==
  [][/\ reply'.op \in ResetOps =>
          ~initialized' /\ ~invoke(registries', "ServiceInvoker", "todoService").ok
     /\ (~initialized /\ reply'.op \in GetInvokerOps /\ reply'.value # <<"LogicInvoker">>) =>
          LET r == Len(repos')
              s == invoke(registries', "ServiceInvoker", "todoService")
              t == invoke(registries', "RepositoryInvoker", "todoRepository") IN
          /\ Len(repos') = Len(repos) + 1
          /\ repos'[r] = {}
          /\ s.ok /\ s.value = ServiceObject(r)
          /\ t.ok /\ t.value = RepositoryObject(r)]_vars

\* After a reset the invokers were obtained again: the registered service is
\* built on a second, empty repository while the first still holds a todo.
C28_Witness ==
  /\ reply.op \in GetInvokerOps
  /\ Len(repos) = 2
  /\ repos[1] # {}
  /\ repos[2] = {}
  /\ invoke(registries, "ServiceInvoker", "todoService").value = ServiceObject(2)
  /\ invoke(registries, "RepositoryInvoker", "todoRepository").value = RepositoryObject(2)

\* The ids of a list of Todo references, in the list's order.
IdsOf(h, rs) == [i \in 1..Len(rs) |-> h[rs[i]].id]

\* C29: after any sequence of hook operations, each run to completion before
\* the next, the store's list has the same ids in the same order as
\* repository findAll(), also when several todos share a createdAt.
C29_UiListMatchesFindAll ==
  IdsOf(heap, store.todos) = IdsOf(heap, findAll(heap, todos).ret)

\* C30: isLoading is true in every state in which at least one hook operation
\* is in flight, also when several overlap, and false when none is.
C30_LoadingWhileInFlight ==
  store.isLoading <=> \E c \in HookCalls : InFlight(c)

====
